---- MODULE Spec2Model ----
(***************************************************************************)
(* The post-aggregation and feed pipeline of app/posts.ts: getPosts reads  *)
(* ./public/, loads <dir>/index.md of every directory in parallel, parses  *)
(* the front matter, merges it with the slug and sorts by date;            *)
(* generateFeed turns the returned list into a feed object.  Next to it:   *)
(* the Home listing, the opengraph-image handlers, and the demo components *)
(* ArrayFromAsyncDemo and UsingDeclarationsDemo of components.js.          *)
(*                                                                         *)
(* JavaScript values are modelled as follows.  A string is a TLA+ string.  *)
(* An object (front-matter data, a post record) is a function from the     *)
(* keys it has to their values; reading a key it lacks gives Undefined.    *)
(* A number that may be NaN is a sequence: << >> is NaN, <<n>> is n.       *)
(* A document is the sequence of its lines.                                *)
(***************************************************************************)
EXTENDS Integers, Sequences, FiniteSets, TLC

(***************************************************************************)
(* Bounds of the model.                                                    *)
(***************************************************************************)
MaxEntries == 3   \* entries of ./public/ (directories and plain files)
MaxCalls == 2     \* calls of generateFeed in one behaviour
MaxClock == 1     \* ticks of the wall clock
MaxLines == 4     \* lines of a text handed to matter() on its own
MaxOps == 4       \* calls made on a Resource under test
MaxRuns == 2      \* runs started in each demo component

VARIABLES
  entries,       \* ./public/ as readdir lists it: sequence of [name, isDirectory]
  files,         \* name |-> [exists, lines]: ./public/<name>/index.md
  clock,         \* wall-clock time (what new Date() would read)
  pc,            \* position of the generateFeed call
  dirs,          \* getPosts: const dirs
  reads,         \* getPosts: state of each readFile promise
  fileContents,  \* getPosts: value of each fulfilled readFile promise
  posts,         \* the list getPosts returned
  feed,          \* << >>, or <<f>> with f the Feed object of generateFeed
  it,            \* generateFeed: position of the for..of loop in posts
  calls,         \* number of generateFeed and Home calls started
  prevFeed,      \* the feed the last finished generateFeed call returned
  siteMeta,      \* the exported metadata object of posts.ts
  caller,        \* who called getPosts: "feed" (generateFeed) or "home" (Home)
  listing,       \* << >>, or <<l>> with l the items Home rendered
  error,         \* << >>, or <<e>> with e the error getPosts rejected with
  heap,          \* number of objects allocated so far (object ids are 1..heap)
  postsRef,      \* object ids of the returned array and of its records
  prevPosts,     \* << >>, or <<r>>: list, ids and dirs of the last finished call
  imgPc,         \* position of the opengraph-image handler
  imgKind,       \* which handler runs: "post" or "home"
  imgSlug,       \* params.slug of the per-post handler
  imgArg,        \* << >>, or <<a>> with a the argument of generatePostImage
  imgError,      \* the error of a failed handler and where it was raised
  doc,           \* the text handed to matter(), as its lines
  parseResult,   \* << >>, or <<r>> with r what matter(doc) ended with
  res,           \* << >>, or <<r>> with r a Resource object under test
  resLogs,       \* the log entries the Resource under test has added
  resLast,       \* the last call on the Resource under test: [op, threw]
  resOps,        \* number of calls made on the Resource under test
  udRunning,     \* UsingDeclarationsDemo: isRunning
  udPc,          \* UsingDeclarationsDemo: position of the run in its demo
  udDemo,        \* UsingDeclarationsDemo: "basic", "error" or "multiple"
  udLogs,        \* UsingDeclarationsDemo: logs
  udObjects,     \* UsingDeclarationsDemo: the Resource objects of the run
  udStack,       \* demoMultipleResources: const resources (indices of udObjects)
  udRuns,        \* UsingDeclarationsDemo: number of runs started
  afRunning,     \* ArrayFromAsyncDemo: isRunning
  afPc,          \* ArrayFromAsyncDemo: position of the run
  afMode,        \* ArrayFromAsyncDemo: "basic" or "mapping"
  afLogs,        \* ArrayFromAsyncDemo: logs
  afResult,      \* ArrayFromAsyncDemo: result (<< >> is null)
  afI,           \* countdown: let i
  afNumbers,     \* Array.fromAsync: const result
  afRuns         \* ArrayFromAsyncDemo: number of runs started

\* The state of the pipeline
coreVars ==
  <<entries, files, clock, pc, dirs, reads, fileContents, posts, feed, it,
    calls, prevFeed, siteMeta, caller, listing, error, heap, postsRef,
    prevPosts>>

imageVars == <<imgPc, imgKind, imgSlug, imgArg, imgError>>

parseVars == <<doc, parseResult>>

resourceVars == <<res, resLogs, resLast, resOps>>

usingVars == <<udRunning, udPc, udDemo, udLogs, udObjects, udStack, udRuns>>

fromAsyncVars ==
  <<afRunning, afPc, afMode, afLogs, afResult, afI, afNumbers, afRuns>>

\* What the pipeline and the image handlers never touch
pageVars == <<parseVars, resourceVars, usingVars, fromAsyncVars>>

vars == <<entries, files, clock, pc, dirs, reads, fileContents, posts, feed,
          it, calls, prevFeed, siteMeta, caller, listing, error, heap,
          postsRef, prevPosts, imageVars, pageVars>>

(***************************************************************************)
(* JavaScript helpers.                                                     *)
(***************************************************************************)
Undefined == "<undefined>"

Get(obj, key) == IF key \in DOMAIN obj THEN obj[key] ELSE Undefined

NaN == << >>
Num(n) == <<n>>
IsNaN(x) == x = NaN

\* a < b on numbers: false as soon as one side is NaN
JsLess(a, b) == ~IsNaN(a) /\ ~IsNaN(b) /\ a[1] < b[1]

\* The year, month and day fields the date grammar reads out of a date text;
\* a text outside the domain is not a date text at all.
DateFields ==
  ("2024-01-01" :> <<2024, 1, 1>>) @@
  ("2024-03-01" :> <<2024, 3, 1>>) @@
  ("2024-06-01" :> <<2024, 6, 1>>) @@
  ("2024-09-01" :> <<2024, 9, 1>>)

\* Days from 1970-01-01 to the civil date y-m-d (proleptic Gregorian).
DaysFromCivil(y, m, d) ==
  LET yy  == IF m <= 2 THEN y - 1 ELSE y
      era == yy \div 400
      yoe == yy - era * 400
      mp  == (m + 9) % 12
      doy == (153 * mp + 2) \div 5 + d - 1
      doe == yoe * 365 + yoe \div 4 - yoe \div 100 + doy
  IN era * 146097 + doe - 719468

\* Date.parse(v): the time value of a date text, NaN for anything else
\* (undefined is first converted to the text "undefined").  The time value is
\* counted in whole days: every date text of the model is a date-only form,
\* whose time value is that many times 86400000 ms.
DateParse(v) ==
  IF v \in DOMAIN DateFields
  THEN LET f == DateFields[v]
       IN IF f[2] \in 1..12 /\ f[3] \in 1..31
          THEN Num(DaysFromCivil(f[1], f[2], 1) + f[3] - 1)
          ELSE NaN
  ELSE NaN

(***************************************************************************)
(* Documents and the front-matter parser, matter(fileContent).             *)
(***************************************************************************)
Fence == [t |-> "fence", k |-> "", v |-> ""]          \* the line ---
KV(key, val) == [t |-> "kv", k |-> key, v |-> val]     \* the line key: val
Text(s) == [t |-> "text", k |-> "", v |-> s]           \* a line of body text
Bad == [t |-> "bad", k |-> "", v |-> ""]               \* a line that is no YAML

\* Index of the first fence in lines[from..], or Len(lines) + 1
RECURSIVE FindFence(_, _)
FindFence(lines, from) ==
  IF from > Len(lines) THEN Len(lines) + 1
  ELSE IF lines[from].t = "fence" THEN from
  ELSE FindFence(lines, from + 1)

\* A parser that takes the first fence anywhere in the text as the opening one
MatterAnyFence(lines) ==
  LET open == FindFence(lines, 1)
  IN IF open > Len(lines)
     THEN [threw |-> FALSE, data |-> <<>>, content |-> lines]
     ELSE LET close == FindFence(lines, open + 1)
              block == SubSeq(lines, open + 1, close - 1)
              keys  == {block[i].k : i \in 1..Len(block)}
              wellFormed ==
                /\ \A i \in 1..Len(block) : block[i].t = "kv"
                /\ \A i, j \in 1..Len(block) : block[i].k = block[j].k => i = j
          IN IF wellFormed
             THEN [threw |-> FALSE,
                   data |-> [key \in keys |->
                              LET i == CHOOSE i \in 1..Len(block) : block[i].k = key
                              IN block[i].v],
                   content |-> SubSeq(lines, close + 1, Len(lines))]
             ELSE [threw |-> TRUE, data |-> <<>>, content |-> <<>>]

\* matter(): a document that does not open with a fence has no front matter;
\* otherwise the block runs to the closing fence (to the end of the input when
\* there is none) and is loaded as a YAML mapping, which throws on a line that
\* is no mapping entry and on a duplicated key.
Matter(lines) ==
  IF Len(lines) = 0 \/ lines[1].t # "fence"
  THEN [threw |-> FALSE, data |-> <<>>, content |-> lines]
  ELSE LET close == FindFence(lines, 2)
           block == SubSeq(lines, 2, close - 1)
           keys  == {block[i].k : i \in 1..Len(block)}
           wellFormed ==
             /\ \A i \in 1..Len(block) : block[i].t = "kv"
             /\ \A i, j \in 1..Len(block) : block[i].k = block[j].k => i = j
       IN IF wellFormed
          THEN [threw |-> FALSE,
                data |-> [key \in keys |->
                           LET i == CHOOSE i \in 1..Len(block) : block[i].k = key
                           IN block[i].v],
                content |-> SubSeq(lines, close + 1, Len(lines))]
          ELSE [threw |-> TRUE, data |-> <<>>, content |-> <<>>]

(***************************************************************************)
(* posts.sort(comparator): the comparator of getPosts and the engine's     *)
(* sort of an array shorter than 64 elements (one run is counted and made  *)
(* ascending, the rest is inserted by binary insertion).                   *)
(***************************************************************************)
\* Compare with the test turned around: oldest first
CompareAscending(a, b) ==
  IF JsLess(DateParse(Get(a, "date")), DateParse(Get(b, "date"))) THEN -1 ELSE 1

Compare(a, b) ==
  IF JsLess(DateParse(Get(a, "date")), DateParse(Get(b, "date"))) THEN 1 ELSE -1

\* Length of the run that starts at work[1], examined from work[idx] on
RECURSIVE RunEnd(_, _, _)
RunEnd(work, idx, isDescending) ==
  IF idx > Len(work) THEN idx - 1
  ELSE LET order == Compare(work[idx], work[idx - 1])
       IN IF (isDescending /\ order >= 0) \/ (~isDescending /\ order < 0)
          THEN idx - 1
          ELSE RunEnd(work, idx + 1, isDescending)

ReverseRange(work, n) ==
  [i \in 1..Len(work) |-> IF i <= n THEN work[n + 1 - i] ELSE work[i]]

CountAndMakeRun(work) ==
  LET isDescending == Compare(work[2], work[1]) < 0
      runLength    == RunEnd(work, 3, isDescending)
  IN [runLength |-> runLength,
      work |-> IF isDescending THEN ReverseRange(work, runLength) ELSE work]

\* Where pivot goes in the sorted prefix work[left..right-1]
RECURSIVE BinarySearch(_, _, _, _)
BinarySearch(work, pivot, left, right) ==
  IF left < right
  THEN LET mid   == left + (right - left) \div 2
           order == Compare(pivot, work[mid])
       IN IF order < 0
          THEN BinarySearch(work, pivot, left, mid)
          ELSE BinarySearch(work, pivot, mid + 1, right)
  ELSE left

RECURSIVE BinaryInsertionSort(_, _)
BinaryInsertionSort(work, start) ==
  IF start > Len(work) THEN work
  ELSE LET pivot == work[start]
           pos   == BinarySearch(work, pivot, 1, start)
           moved == [i \in 1..Len(work) |->
                      IF i < pos THEN work[i]
                      ELSE IF i = pos THEN pivot
                      ELSE IF i <= start THEN work[i - 1]
                      ELSE work[i]]
       IN BinaryInsertionSort(moved, start + 1)

\* A sort that leaves the array as it is
ArrayUnsorted(arr) == arr

ArraySort(arr) ==
  IF Len(arr) < 2 THEN arr
  ELSE LET run == CountAndMakeRun(arr)
       IN BinaryInsertionSort(run.work, run.runLength + 1)

(***************************************************************************)
(* getPosts.                                                               *)
(***************************************************************************)
\* The directories, those without index.md left out
DirsWithIndex(es) ==
  LET kept == SelectSeq(es, LAMBDA e : e.isDirectory /\ files[e.name].exists)
  IN [i \in 1..Len(kept) |-> kept[i].name]

\* Every entry taken as a directory
DirsUnfiltered(es) == [i \in 1..Len(es) |-> es[i].name]

\* entries.filter((entry) => entry.isDirectory()).map((entry) => entry.name)
Dirs(es) ==
  LET kept == SelectSeq(es, LAMBDA e : e.isDirectory)
  IN [i \in 1..Len(kept) |-> kept[i].name]

\* Promise.all replaced by a join that waits for every read and ignores failures
PromiseAllSettled(rs) ==
  IF \A i \in 1..Len(rs) : rs[i] # "pending" THEN "fulfilled" ELSE "pending"

\* A join that settles as soon as one read has succeeded
PromiseAny(rs) ==
  IF \E i \in 1..Len(rs) : rs[i] = "fulfilled" THEN "fulfilled"
  ELSE IF \A i \in 1..Len(rs) : rs[i] = "rejected" THEN "rejected"
  ELSE "pending"

\* State of Promise.all over the readFile promises
PromiseAll(rs) ==
  IF \E i \in 1..Len(rs) : rs[i] = "rejected" THEN "rejected"
  ELSE IF \A i \in 1..Len(rs) : rs[i] = "fulfilled" THEN "fulfilled"
  ELSE "pending"

\* The record built from the fields of the Post interface only
PostOfKnownFields(slug, data) ==
  [key \in (DOMAIN data \cap {"title", "date", "spoiler", "youtube", "bluesky"})
             \cup {"slug"} |->
     IF key = "slug" THEN slug ELSE data[key]]

\* { slug, ...data }: the keys of data are spread after slug
PostOf(slug, data) == data @@ ("slug" :> slug)

\* The rejection of readFile for a directory without index.md
ReadError(dir) ==
  [name |-> "Error", code |-> "ENOENT",
   path |-> "./public/" \o dir \o "/index.md"]

\* The exception of the YAML loader: matter() hands it the text only, so it
\* names no file
YamlError ==
  [name |-> "YAMLException", code |-> Undefined, path |-> Undefined]

\* No array returned yet
NoRef == [list |-> 0, records |-> {}]

\* The array and the records of a module-level cache, handed out again
AllocateShared(h, n) == [list |-> 1, records |-> 2..(1 + n)]

\* dirs.map(...) builds a new array and one new object per directory
Allocate(h, n) == [list |-> h + 1, records |-> (h + 2)..(h + 1 + n)]

(***************************************************************************)
(* generateFeed.                                                           *)
(***************************************************************************)
site_url == "https://sulhadin.com/"

metadata ==
  [title |-> "refactored - A blog by Sulhadin Oney",
   description |-> "A blog by Sulhadin Oney"]   \* letters outside ASCII transliterated

\* feedOptions stamped with the time of the run
FeedOptionsStamped ==
  [author |-> [name |-> "Sulhadin Oney", email |-> "sulhadin@gmail.com",
               link |-> site_url],
   description |-> Get(siteMeta, "description"),
   favicon |-> site_url \o "/icon.png",
   feedLinks |-> [atom |-> site_url \o "atom.xml", rss |-> site_url \o "rss.xml"],
   generator |-> "Feed for Node.js",
   id |-> site_url,
   image |-> "https://github.com/sulhadin.png",
   link |-> site_url,
   title |-> Get(siteMeta, "title"),
   updated |-> clock]

FeedOptions ==
  [author |-> [name |-> "Sulhadin Oney", email |-> "sulhadin@gmail.com",
               link |-> site_url],
   description |-> Get(siteMeta, "description"),
   favicon |-> site_url \o "/icon.png",
   feedLinks |-> [atom |-> site_url \o "atom.xml", rss |-> site_url \o "rss.xml"],
   generator |-> "Feed for Node.js",
   id |-> site_url,
   image |-> "https://github.com/sulhadin.png",
   link |-> site_url,
   title |-> Get(siteMeta, "title")]

\* new Date(v): a Date whose time value is that of Date.parse(v)
NewDate(v) == DateParse(v)

\* The entry with the link built like the favicon, with a second slash
FeedItemDoubleSlash(post) ==
  [date |-> NewDate(Get(post, "date")),
   description |-> Get(post, "spoiler"),
   id |-> site_url \o Get(post, "slug") \o "/",
   link |-> site_url \o "/" \o Get(post, "slug") \o "/",
   title |-> Get(post, "title")]

\* The entry with the title used as description
FeedItemTitleAsDescription(post) ==
  [date |-> NewDate(Get(post, "date")),
   description |-> Get(post, "title"),
   id |-> site_url \o Get(post, "slug") \o "/",
   link |-> site_url \o Get(post, "slug") \o "/",
   title |-> Get(post, "title")]

FeedItem(post) ==
  [date |-> NewDate(Get(post, "date")),
   description |-> Get(post, "spoiler"),
   id |-> site_url \o Get(post, "slug") \o "/",
   link |-> site_url \o Get(post, "slug") \o "/",
   title |-> Get(post, "title")]

(***************************************************************************)
(* Home: the listing of the posts.                                         *)
(***************************************************************************)
MonthNames ==
  <<"January", "February", "March", "April", "May", "June", "July", "August",
    "September", "October", "November", "December">>

\* The civil date <<y, m, d>> of a day counted from 1970-01-01
CivilFromDays(days) ==
  LET z   == days + 719468
      era == z \div 146097
      doe == z - era * 146097
      yoe == (doe - doe \div 1460 + doe \div 36524 - doe \div 146096) \div 365
      doy == doe - (365 * yoe + yoe \div 4 - yoe \div 100)
      mp  == (5 * doy + 2) \div 153
      d   == doy - (153 * mp + 2) \div 5 + 1
      m   == IF mp < 10 THEN mp + 3 ELSE mp - 9
      y   == yoe + era * 400 + (IF m <= 2 THEN 1 ELSE 0)
  IN <<y, m, d>>

\* date.toLocaleDateString('en', { day: 'numeric', month: 'long', year:
\* 'numeric' }) in the time zone of the host: the time value of a date-only
\* text is midnight UTC, which is still the day before in a zone west of
\* Greenwich.
ToLocaleDateString(t, west) ==
  IF IsNaN(t) THEN "Invalid Date"
  ELSE LET c == CivilFromDays(IF west THEN t[1] - 1 ELSE t[1])
       IN MonthNames[c[2]] \o " " \o ToString(c[3]) \o ", " \o ToString(c[1])

\* new Date(2018, 10, 30): 30 November 2018, as a day counted from 1970-01-01
FirstPostDay == DaysFromCivil(2018, 11, 30)

\* Days from one reading of the clock to the next
DaysPerTick == 100

\* new Date() at a reading of the clock: 1 March 2024 and later days
Today(now) == DaysFromCivil(2024, 3, 1) + DaysPerTick * now

\* timeSinceThisPost / timeSinceFirstPost, in whole days (the part of a day
\* by which midnight of the host differs from midnight UTC is left out): NaN
\* when the date of the post is, else the fraction <<numerator, denominator>>
Staleness(post, today) ==
  IF IsNaN(NewDate(Get(post, "date"))) THEN NaN
  ELSE <<today - NewDate(Get(post, "date"))[1], today - FirstPostDay>>

\* The item with the link left without its closing slash
HomeItemNoSlash(post, west, today) ==
  [key |-> Get(post, "slug"),
   href |-> "/" \o Get(post, "slug"),
   title |-> Get(post, "title"),
   staleness |-> Staleness(post, today),
   date |-> ToLocaleDateString(NewDate(Get(post, "date")), west),
   spoiler |-> Get(post, "spoiler")]

\* One <Link> of the listing: PostTitle, PostMeta and PostSubtitle of a post
HomeItem(post, west, today) ==
  [key |-> Get(post, "slug"),
   href |-> "/" \o Get(post, "slug") \o "/",
   title |-> Get(post, "title"),
   staleness |-> Staleness(post, today),
   date |-> ToLocaleDateString(NewDate(Get(post, "date")), west),
   spoiler |-> Get(post, "spoiler")]

(***************************************************************************)
(* The content tree.                                                       *)
(***************************************************************************)
EntryNames == <<"a", "b", "c", "d", "e">>

PostDoc(title, date, spoiler) ==
  <<Fence, KV("title", title), KV("date", date), KV("spoiler", spoiler),
    KV("cta", "react"), Fence, Text("body")>>

DocJan == PostDoc("January", "2024-01-01", "first")
DocJun == PostDoc("June", "2024-06-01", "second")
DocSoon == PostDoc("Draft", "soon", "third")
DocSlug ==
  <<Fence, KV("title", "March"), KV("date", "2024-03-01"),
    KV("spoiler", "fourth"), KV("slug", "a"), Fence, Text("body")>>
DocSep == PostDoc("September", "2024-09-01", "fifth")
DocPlain == <<Text("no front matter")>>
DocBroken == <<Fence, KV("title", "Broken"), Bad, Fence, Text("body")>>

Docs == {DocJan, DocJun, DocSoon, DocSlug, DocPlain, DocBroken}

NoIndex == [exists |-> FALSE, lines |-> <<>>]
Index(lines) == [exists |-> TRUE, lines |-> lines]

\* What one entry of ./public/ can be: a plain file, a directory without
\* index.md, or a directory whose index.md is one of Docs
EntryStates ==
  {[isDirectory |-> FALSE, file |-> NoIndex], [isDirectory |-> TRUE, file |-> NoIndex]}
    \cup {[isDirectory |-> TRUE, file |-> Index(d)] : d \in Docs}

(***************************************************************************)
(* The opengraph-image handlers.                                           *)
(***************************************************************************)
NoError == [origin |-> "", name |-> ""]

\* ./public/<slug>/index.md, also for a slug that is no entry of ./public/
FileOf(slug) == IF slug \in DOMAIN files THEN files[slug] ELSE NoIndex

\* The handler that also refuses a front matter without title
ImageOutcomeStrict(file) ==
  IF ~file.exists THEN "ENOENT"
  ELSE IF Matter(file.lines).threw THEN "YAMLException"
  ELSE IF "title" \notin DOMAIN Matter(file.lines).data THEN "TypeError"
  ELSE "ok"

\* What the handler's own steps, readFile and matter, end with
ImageOutcome(file) ==
  IF ~file.exists THEN "ENOENT"
  ELSE IF Matter(file.lines).threw THEN "YAMLException"
  ELSE "ok"

\* The argument with the spoiler passed along
ImageArgWithSpoiler(data) ==
  [title |-> Get(data, "title"), spoiler |-> Get(data, "spoiler")]

\* { title: data.title }
ImageArg(data) == [title |-> Get(data, "title")]

\* The slugs a request can carry: the entries of ./public/ and one other name
RequestSlugs == {EntryNames[i] : i \in 1..(MaxEntries + 1)}

\* Image({ params }) of [slug]/opengraph-image is called and starts readFile
PostImageRequest(slug) ==
  /\ imgPc = "idle"
  /\ imgKind' = "post"
  /\ imgSlug' = slug
  /\ imgPc' = "reading"
  /\ UNCHANGED <<imgArg, imgError>>
  /\ UNCHANGED <<entries, files, clock, pc, dirs, reads, fileContents, posts,
                 feed, it, calls, prevFeed>>
  /\ UNCHANGED <<siteMeta, caller, listing, error, heap, postsRef, prevPosts,
                 pageVars>>

\* readFile settles: the handler throws, or parses and calls generatePostImage
PostImageReadSettle ==
  /\ imgPc = "reading"
  /\ LET outcome == ImageOutcome(FileOf(imgSlug))
     IN IF outcome = "ok"
        THEN /\ imgArg' = <<ImageArg(Matter(FileOf(imgSlug).lines).data)>>
             /\ imgPc' = "rendering"
             /\ imgError' = imgError
        ELSE /\ imgPc' = "failed"
             /\ imgError' = [origin |-> "handler", name |-> outcome]
             /\ imgArg' = imgArg
  /\ UNCHANGED <<imgKind, imgSlug>>
  /\ UNCHANGED <<entries, files, clock, pc, dirs, reads, fileContents, posts,
                 feed, it, calls, prevFeed>>
  /\ UNCHANGED <<siteMeta, caller, listing, error, heap, postsRef, prevPosts,
                 pageVars>>

\* Image() of app/opengraph-image is called and calls generateHomeImage()
HomeImageRequest ==
  /\ imgPc = "idle"
  /\ imgKind' = "home"
  /\ imgPc' = "rendering"
  /\ UNCHANGED <<imgSlug, imgArg, imgError>>
  /\ UNCHANGED <<entries, files, clock, pc, dirs, reads, fileContents, posts,
                 feed, it, calls, prevFeed>>
  /\ UNCHANGED <<siteMeta, caller, listing, error, heap, postsRef, prevPosts,
                 pageVars>>

\* The rendering collaborator (generatePostImage, generateHomeImage) returns
\* an image or raises
GenerateImageSettle ==
  /\ imgPc = "rendering"
  /\ \E ok \in BOOLEAN :
       IF ok
       THEN imgPc' = "returned" /\ imgError' = imgError
       ELSE imgPc' = "failed"
            /\ imgError' = [origin |-> "collaborator", name |-> "Error"]
  /\ UNCHANGED <<imgKind, imgSlug, imgArg>>
  /\ UNCHANGED <<entries, files, clock, pc, dirs, reads, fileContents, posts,
                 feed, it, calls, prevFeed>>
  /\ UNCHANGED <<siteMeta, caller, listing, error, heap, postsRef, prevPosts,
                 pageVars>>

\* What ./public/ can hold: up to MaxEntries entries, each in one of EntryStates
Content ==
  /\ \E n \in 0..MaxEntries : \E st \in [1..n -> EntryStates] :
       /\ entries = [i \in 1..n |->
                      [name |-> EntryNames[i], isDirectory |-> st[i].isDirectory]]
       /\ files = [nm \in {EntryNames[i] : i \in 1..n} |->
                    LET i == CHOOSE i \in 1..n : EntryNames[i] = nm IN st[i].file]

\* Everything but the content tree and the metadata object
Start ==
  /\ clock = 0
  /\ pc = "idle"
  /\ dirs = <<>>
  /\ reads = <<>>
  /\ fileContents = <<>>
  /\ posts = <<>>
  /\ feed = <<>>
  /\ it = 0
  /\ calls = 0
  /\ prevFeed = <<>>
  /\ caller = "none"
  /\ listing = <<>>
  /\ error = <<>>
  /\ heap = 0
  /\ postsRef = NoRef
  /\ prevPosts = <<>>
  /\ imgPc = "idle"
  /\ imgKind = "none"
  /\ imgSlug = ""
  /\ imgArg = <<>>
  /\ imgError = NoError

\* No text has been handed to matter() on its own
ParseStart ==
  /\ doc = <<>>
  /\ parseResult = <<>>

\* No Resource is under test
ResourceStart ==
  /\ res = <<>>
  /\ resLogs = <<>>
  /\ resLast = [op |-> "none", threw |-> FALSE]
  /\ resOps = 0

\* The demo components as mounted: useState(false), useState([]), useState(null)
DemoStart ==
  /\ udRunning = FALSE
  /\ udPc = "idle"
  /\ udDemo = "none"
  /\ udLogs = <<>>
  /\ udObjects = <<>>
  /\ udStack = <<>>
  /\ udRuns = 0
  /\ afRunning = FALSE
  /\ afPc = "idle"
  /\ afMode = "none"
  /\ afLogs = <<>>
  /\ afResult = <<>>
  /\ afI = 0
  /\ afNumbers = <<>>
  /\ afRuns = 0

PageStart == ParseStart /\ ResourceStart /\ DemoStart

\* An empty ./public/
NoContent == entries = <<>> /\ files = <<>>

Init == Content /\ siteMeta = metadata /\ Start /\ PageStart

\* generateFeed() is called; it calls getPosts, which calls readdir and awaits
CallGenerateFeed ==
  /\ pc \in {"idle", "done", "rejected"}
  /\ calls < MaxCalls
  /\ calls' = calls + 1
  /\ prevFeed' = IF pc = "done" /\ caller = "feed" THEN feed ELSE prevFeed
  /\ pc' = "readdir"
  /\ dirs' = <<>>
  /\ reads' = <<>>
  /\ fileContents' = <<>>
  /\ posts' = <<>>
  /\ feed' = <<>>
  /\ it' = 0
  /\ caller' = "feed"
  /\ listing' = <<>>
  /\ error' = <<>>
  /\ postsRef' = NoRef
  /\ prevPosts' = IF pc = "done"
                   THEN <<[list |-> posts, ref |-> postsRef, dirs |-> dirs]>>
                   ELSE prevPosts
  /\ UNCHANGED <<entries, files, clock, heap, siteMeta, imageVars, pageVars>>

\* Home() is called; it calls getPosts, which calls readdir and awaits
CallHome ==
  /\ pc \in {"idle", "done", "rejected"}
  /\ calls < MaxCalls
  /\ calls' = calls + 1
  /\ prevFeed' = IF pc = "done" /\ caller = "feed" THEN feed ELSE prevFeed
  /\ pc' = "readdir"
  /\ dirs' = <<>>
  /\ reads' = <<>>
  /\ fileContents' = <<>>
  /\ posts' = <<>>
  /\ feed' = <<>>
  /\ it' = 0
  /\ caller' = "home"
  /\ listing' = <<>>
  /\ error' = <<>>
  /\ postsRef' = NoRef
  /\ prevPosts' = IF pc = "done"
                   THEN <<[list |-> posts, ref |-> postsRef, dirs |-> dirs]>>
                   ELSE prevPosts
  /\ UNCHANGED <<entries, files, clock, heap, siteMeta, imageVars, pageVars>>

\* readdir settles: the directories are kept and every readFile is started
ReaddirDone ==
  /\ pc = "readdir"
  /\ dirs' = Dirs(entries)
  /\ reads' = [i \in 1..Len(dirs') |-> "pending"]
  /\ fileContents' = [i \in 1..Len(dirs') |-> <<>>]
  /\ pc' = "reading"
  /\ UNCHANGED <<entries, files, clock, posts, feed, it, calls, prevFeed>>
  /\ UNCHANGED <<siteMeta, caller, listing, error, heap, postsRef, prevPosts,
                 imageVars, pageVars>>

\* The read whose content is stored in the order of completion
ReadFileSettlePush(i) ==
  /\ i \in 1..Len(reads)
  /\ reads[i] = "pending"
  /\ IF files[dirs[i]].exists
     THEN /\ reads' = [reads EXCEPT ![i] = "fulfilled"]
          /\ fileContents' =
               [fileContents EXCEPT
                  ![1 + Cardinality({j \in 1..Len(reads) : reads[j] = "fulfilled"})]
                    = files[dirs[i]].lines]
     ELSE /\ reads' = [reads EXCEPT ![i] = "rejected"]
          /\ fileContents' = fileContents
  /\ error' = IF ~files[dirs[i]].exists /\ error = <<>>
               THEN <<ReadError(dirs[i])>>
               ELSE error
  /\ UNCHANGED <<entries, files, clock, pc, dirs, posts, feed, it, calls, prevFeed>>
  /\ UNCHANGED <<siteMeta, caller, listing, heap, postsRef, prevPosts, imageVars, pageVars>>

\* readFile(`./public/${dir}/index.md`) of dirs[i] settles
ReadFileSettle(i) ==
  /\ i \in 1..Len(reads)
  /\ reads[i] = "pending"
  /\ IF files[dirs[i]].exists
     THEN /\ reads' = [reads EXCEPT ![i] = "fulfilled"]
          /\ fileContents' = [fileContents EXCEPT ![i] = files[dirs[i]].lines]
     ELSE /\ reads' = [reads EXCEPT ![i] = "rejected"]
          /\ fileContents' = fileContents
  /\ error' = IF ~files[dirs[i]].exists /\ error = <<>>
               THEN <<ReadError(dirs[i])>>
               ELSE error
  /\ UNCHANGED <<entries, files, clock, pc, dirs, posts, feed, it, calls, prevFeed>>
  /\ UNCHANGED <<siteMeta, caller, listing, heap, postsRef, prevPosts, imageVars, pageVars>>

\* The await on Promise.all settles: getPosts throws, or parses, merges, sorts
\* and returns
GetPostsResume ==
  /\ pc = "reading"
  /\ PromiseAll(reads) # "pending"
  /\ IF PromiseAll(reads) = "rejected"
     THEN /\ pc' = "rejected"
          /\ posts' = posts
          /\ UNCHANGED <<error, heap, postsRef>>
     ELSE LET parsed == [i \in 1..Len(dirs) |-> Matter(fileContents[i])]
          IN IF \E i \in 1..Len(dirs) : parsed[i].threw
             THEN /\ pc' = "rejected"
                  /\ posts' = posts
                  /\ error' = <<YamlError>>
                  /\ UNCHANGED <<heap, postsRef>>
             ELSE /\ pc' = "resolved"
                  /\ posts' = ArraySort([i \in 1..Len(dirs) |->
                                           PostOf(dirs[i], parsed[i].data)])
                  /\ postsRef' = Allocate(heap, Len(dirs))
                  /\ heap' = heap + 1 + Len(dirs)
                  /\ error' = error
  /\ UNCHANGED <<entries, files, clock, dirs, reads, fileContents, feed, it,
                 calls, prevFeed>>
  /\ UNCHANGED <<siteMeta, caller, listing, prevPosts, imageVars, pageVars>>

\* generateFeed resumes with the posts: new Feed(feedOptions)
NewFeed ==
  /\ pc = "resolved"
  /\ caller = "feed"
  /\ feed' = <<[options |-> FeedOptions, items |-> <<>>]>>
  /\ it' = 1
  /\ pc' = "feeding"
  /\ UNCHANGED <<entries, files, clock, dirs, reads, fileContents, posts, calls,
                 prevFeed>>
  /\ UNCHANGED <<siteMeta, caller, listing, error, heap, postsRef, prevPosts,
                 imageVars, pageVars>>

\* The loop turn with the item put in front of the earlier ones
AddItemFront ==
  /\ pc = "feeding"
  /\ it <= Len(posts)
  /\ feed' = <<[feed[1] EXCEPT !.items = <<FeedItem(posts[it])>> \o @]>>
  /\ it' = it + 1
  /\ UNCHANGED <<entries, files, clock, pc, dirs, reads, fileContents, posts,
                 calls, prevFeed>>
  /\ UNCHANGED <<siteMeta, caller, listing, error, heap, postsRef, prevPosts,
                 imageVars, pageVars>>

\* One turn of the for..of loop: feed.addItem({...}) pushes the item
AddItem ==
  /\ pc = "feeding"
  /\ it <= Len(posts)
  /\ feed' = <<[feed[1] EXCEPT !.items = Append(@, FeedItem(posts[it]))]>>
  /\ it' = it + 1
  /\ UNCHANGED <<entries, files, clock, pc, dirs, reads, fileContents, posts,
                 calls, prevFeed>>
  /\ UNCHANGED <<siteMeta, caller, listing, error, heap, postsRef, prevPosts,
                 imageVars, pageVars>>

\* The loop is over: return feed
ReturnFeed ==
  /\ pc = "feeding"
  /\ it > Len(posts)
  /\ pc' = "done"
  /\ UNCHANGED <<entries, files, clock, dirs, reads, fileContents, posts, feed,
                 it, calls, prevFeed>>
  /\ UNCHANGED <<siteMeta, caller, listing, error, heap, postsRef, prevPosts,
                 imageVars, pageVars>>

\* Home resumes with the posts and renders posts.map(...)
RenderHome ==
  /\ pc = "resolved"
  /\ caller = "home"
  /\ \E west \in BOOLEAN :
       listing' = <<[k \in 1..Len(posts) |->
                       HomeItem(posts[k], west, Today(clock))]>>
  /\ pc' = "done"
  /\ UNCHANGED <<entries, files, clock, dirs, reads, fileContents, posts, feed,
                 it, calls, prevFeed>>
  /\ UNCHANGED <<siteMeta, caller, error, heap, postsRef, prevPosts, imageVars, pageVars>>

\* Time passes
Tick ==
  /\ clock < MaxClock
  /\ clock' = clock + 1
  /\ UNCHANGED <<entries, files, pc, dirs, reads, fileContents, posts, feed, it,
                 calls, prevFeed>>
  /\ UNCHANGED <<siteMeta, caller, listing, error, heap, postsRef, prevPosts,
                 imageVars, pageVars>>

Next ==
  \/ CallGenerateFeed
  \/ CallHome
  \/ ReaddirDone
  \/ \E i \in 1..MaxEntries : ReadFileSettle(i)
  \/ GetPostsResume
  \/ NewFeed
  \/ AddItem
  \/ ReturnFeed
  \/ RenderHome

Spec == Init /\ [][Next]_vars

\* The pipeline while the clock of the host advances
NextClock ==
  \/ Next
  \/ Tick

SpecClock == Init /\ [][NextClock]_vars

\* The image handlers alone
NextImage ==
  \/ \E slug \in RequestSlugs : PostImageRequest(slug)
  \/ PostImageReadSettle
  \/ HomeImageRequest
  \/ GenerateImageSettle

SpecImage == Init /\ [][NextImage]_vars

\* The pipeline with the metadata object also taken without its title
MetaStates == {metadata, [description |-> metadata.description]}

InitMeta == Content /\ siteMeta \in MetaStates /\ Start /\ PageStart

SpecMeta == InitMeta /\ [][Next]_vars

(***************************************************************************)
(* The pipeline over directories that readdir enumerates in another order  *)
(* from one call to the next.                                              *)
(***************************************************************************)
OrderDocs == {DocJan, DocJun, DocSlug, DocSep}

\* Up to MaxEntries directories, each with another document of OrderDocs
InitOrder ==
  /\ \E n \in 0..MaxEntries : \E st \in [1..n -> OrderDocs] :
       /\ \A i, j \in 1..n : st[i] = st[j] => i = j
       /\ entries = [i \in 1..n |-> [name |-> EntryNames[i], isDirectory |-> TRUE]]
       /\ files = [nm \in {EntryNames[i] : i \in 1..n} |->
                    LET i == CHOOSE i \in 1..n : EntryNames[i] = nm
                    IN Index(st[i])]
  /\ siteMeta = metadata /\ Start /\ PageStart

\* readdir settles, listing the entries of ./public/ in another order
ReaddirDoneReordered ==
  /\ pc = "readdir"
  /\ \E p \in Permutations(1..Len(entries)) :
       /\ dirs' = Dirs([i \in 1..Len(entries) |-> entries[p[i]]])
       /\ dirs' # Dirs(entries)
  /\ reads' = [i \in 1..Len(dirs') |-> "pending"]
  /\ fileContents' = [i \in 1..Len(dirs') |-> <<>>]
  /\ pc' = "reading"
  /\ UNCHANGED <<entries, files, clock, posts, feed, it, calls, prevFeed>>
  /\ UNCHANGED <<siteMeta, caller, listing, error, heap, postsRef, prevPosts,
                 imageVars, pageVars>>

\* getPosts as Home calls it, readdir listing in any order
NextOrder ==
  \/ CallHome
  \/ ReaddirDone
  \/ ReaddirDoneReordered
  \/ \E i \in 1..MaxEntries : ReadFileSettle(i)
  \/ GetPostsResume
  \/ RenderHome

SpecOrder == InitOrder /\ [][NextOrder]_vars

(***************************************************************************)
(* matter() on its own, over every text of up to MaxLines lines.           *)
(***************************************************************************)
ParseLines ==
  {Fence, KV("title", "January"), KV("date", "2024-01-01"), Text("body"), Bad}

Documents == UNION {[1..n -> ParseLines] : n \in 0..MaxLines}

InitParse ==
  /\ NoContent /\ siteMeta = metadata /\ Start
  /\ doc \in Documents
  /\ parseResult = <<>>
  /\ ResourceStart /\ DemoStart

\* const { data } = matter(fileContent), with what it throws kept
ParseDoc ==
  /\ parseResult = <<>>
  /\ parseResult' = <<Matter(doc)>>
  /\ UNCHANGED <<entries, files, clock, pc, dirs, reads, fileContents, posts,
                 feed, it, calls, prevFeed>>
  /\ UNCHANGED <<siteMeta, caller, listing, error, heap, postsRef, prevPosts,
                 imageVars>>
  /\ UNCHANGED <<doc, resourceVars, usingVars, fromAsyncVars>>

NextParse == ParseDoc

SpecParse == InitParse /\ [][NextParse]_vars

(***************************************************************************)
(* class Resource of UsingDeclarationsDemo.  A log entry is the message    *)
(* and the type handed to addLog; the pictograph that opens a message, the *)
(* duration in a dispose message and the time of day of an entry are left  *)
(* out.                                                                    *)
(***************************************************************************)
Entry(message, type) == [message |-> message, type |-> type]

\* constructor(name): the new object and what it logs
ResourceNew(name) ==
  [r |-> [name |-> name, disposed |-> FALSE],
   logs |-> <<Entry(name \o " acquired", "success")>>]

\* use(): throws on a disposed resource, logs otherwise
ResourceUse(r) ==
  IF r.disposed
  THEN [threw |-> TRUE, logs |-> <<>>]
  ELSE [threw |-> FALSE, logs |-> <<Entry("Using " \o r.name, "info")>>]

\* A dispose that logs and forgets to mark the resource
ResourceDisposeUnmarked(r) ==
  [r |-> r, logs |-> <<Entry(r.name \o " disposed", "dispose")>>]

\* A dispose without the early return
ResourceDisposeAgain(r) ==
  [r |-> [r EXCEPT !.disposed = TRUE],
   logs |-> <<Entry(r.name \o " disposed", "dispose")>>]

\* [Symbol.dispose](): nothing on a disposed resource, marks and logs otherwise
ResourceDispose(r) ==
  IF r.disposed
  THEN [r |-> r, logs |-> <<>>]
  ELSE [r |-> [r EXCEPT !.disposed = TRUE],
        logs |-> <<Entry(r.name \o " disposed", "dispose")>>]

ResourceNames ==
  {"File Handle", "Database Connection", "Database", "Cache (depends on DB)",
   "Session (depends on Cache)"}

\* new Resource(name)
NewResource(name) ==
  /\ res = <<>>
  /\ res' = <<ResourceNew(name).r>>
  /\ resLogs' = resLogs \o ResourceNew(name).logs
  /\ resLast' = [op |-> "new", threw |-> FALSE]
  /\ UNCHANGED resOps
  /\ UNCHANGED <<entries, files, clock, pc, dirs, reads, fileContents, posts,
                 feed, it, calls, prevFeed>>
  /\ UNCHANGED <<siteMeta, caller, listing, error, heap, postsRef, prevPosts,
                 imageVars, parseVars, usingVars, fromAsyncVars>>

\* resource.use()
UseResource ==
  /\ res # <<>>
  /\ resOps < MaxOps
  /\ resOps' = resOps + 1
  /\ resLogs' = resLogs \o ResourceUse(res[1]).logs
  /\ resLast' = [op |-> "use", threw |-> ResourceUse(res[1]).threw]
  /\ UNCHANGED res
  /\ UNCHANGED <<entries, files, clock, pc, dirs, reads, fileContents, posts,
                 feed, it, calls, prevFeed>>
  /\ UNCHANGED <<siteMeta, caller, listing, error, heap, postsRef, prevPosts,
                 imageVars, parseVars, usingVars, fromAsyncVars>>

\* resource[Symbol.dispose]()
DisposeResource ==
  /\ res # <<>>
  /\ resOps < MaxOps
  /\ resOps' = resOps + 1
  /\ res' = <<ResourceDispose(res[1]).r>>
  /\ resLogs' = resLogs \o ResourceDispose(res[1]).logs
  /\ resLast' = [op |-> "dispose", threw |-> FALSE]
  /\ UNCHANGED <<entries, files, clock, pc, dirs, reads, fileContents, posts,
                 feed, it, calls, prevFeed>>
  /\ UNCHANGED <<siteMeta, caller, listing, error, heap, postsRef, prevPosts,
                 imageVars, parseVars, usingVars, fromAsyncVars>>

InitResource ==
  /\ NoContent /\ siteMeta = metadata /\ Start /\ PageStart

\* Any sequence of calls on one Resource
NextResource ==
  \/ \E name \in ResourceNames : NewResource(name)
  \/ UseResource
  \/ DisposeResource

SpecResource == InitResource /\ [][NextResource]_vars

(***************************************************************************)
(* UsingDeclarationsDemo.  A run is cut at its awaits: the click handler    *)
(* runs to the first await, and each turn runs from a timer that fired to   *)
(* the next await or to the end.  An entry of logs also records the run     *)
(* that added it.  A click is handled with the state of the last render:    *)
(* the state set in a click handler is rendered before the next click.      *)
(***************************************************************************)
Tag(es, run) ==
  [k \in 1..Len(es) |->
     [message |-> es[k].message, type |-> es[k].type, run |-> run]]

\* A start button that is never disabled
NeverDisabled(isRunning) == FALSE

\* disabled={isRunning}
Disabled(isRunning) == isRunning

\* resources.shift() in the place of resources.pop()
Shift(stack) == [item |-> stack[1], rest |-> Tail(stack)]

\* resources.pop()
Pop(stack) ==
  [item |-> stack[Len(stack)], rest |-> SubSeq(stack, 1, Len(stack) - 1)]

\* One turn of a run: where it awaits next, what it logs, the Resource
\* objects and the resources array after it, and isRunning
Turn(at, add, objs, stack, running) ==
  [pc |-> at, add |-> add, objs |-> objs, stack |-> stack, running |-> running]

\* demoBasicUsage from the timer awaited at `at`
BasicTurn(at, objs) ==
  CASE at = "b1" ->
         Turn("b2", ResourceNew("File Handle").logs,
              <<ResourceNew("File Handle").r>>, <<>>, TRUE)
    [] at = "b2" ->
         IF ResourceUse(objs[1]).threw
         THEN Turn("crashed", ResourceDispose(objs[1]).logs,
                   <<ResourceDispose(objs[1]).r>>, <<>>, TRUE)
         ELSE Turn("b3", ResourceUse(objs[1]).logs, objs, <<>>, TRUE)
    [] at = "b3" ->
         Turn("b4", <<Entry("Processing data...", "info")>>, objs, <<>>, TRUE)
    [] at = "b4" ->
         Turn("b5", ResourceDispose(objs[1]).logs,
              <<ResourceDispose(objs[1]).r>>, <<>>, TRUE)
    [] at = "b5" ->
         Turn("idle", <<Entry("Demo complete!", "success")>>, objs, <<>>, FALSE)

\* demoWithError from the timer awaited at `at`
ErrorTurn(at, objs) ==
  CASE at = "e1" ->
         Turn("e2", ResourceNew("Database Connection").logs,
              <<ResourceNew("Database Connection").r>>, <<>>, TRUE)
    [] at = "e2" ->
         IF ResourceUse(objs[1]).threw
         THEN Turn("e5",
                   <<Entry("Caught error: " \o objs[1].name
                             \o " already disposed!", "error")>>,
                   objs, <<>>, TRUE)
         ELSE Turn("e3", ResourceUse(objs[1]).logs, objs, <<>>, TRUE)
    [] at = "e3" ->
         Turn("e4", <<Entry("Simulating error...", "warning")>>, objs, <<>>, TRUE)
    [] at = "e4" ->
         Turn("e5", <<Entry("Caught error: Something went wrong!", "error")>>,
              objs, <<>>, TRUE)
    [] at = "e5" ->
         Turn("e6",
              ResourceDispose(objs[1]).logs
                \o <<Entry("Resource cleaned up despite error!", "success")>>,
              <<ResourceDispose(objs[1]).r>>, <<>>, TRUE)
    [] at = "e6" ->
         Turn("idle", <<Entry("Demo complete!", "success")>>, objs, <<>>, FALSE)

\* try { x.use(); await ... } of demoMultipleResources: on to `next`, or into
\* the finally block with the error pending
UseOrFinally(i, next, objs, stack) ==
  IF ResourceUse(objs[i]).threw
  THEN Turn("x9", <<Entry("Disposing in REVERSE order...", "warning")>>,
            objs, stack, TRUE)
  ELSE Turn(next, ResourceUse(objs[i]).logs, objs, stack, TRUE)

\* const x = new Resource(name); resources.push(x)
Acquire(name, next, objs, stack) ==
  Turn(next, ResourceNew(name).logs, Append(objs, ResourceNew(name).r),
       Append(stack, Len(objs) + 1), TRUE)

\* resources.pop()[Symbol.dispose]()
DisposeTop(at, objs, stack) ==
  LET i == Pop(stack).item
  IN Turn(at, ResourceDispose(objs[i]).logs,
          [objs EXCEPT ![i] = ResourceDispose(objs[i]).r], Pop(stack).rest, TRUE)

\* demoMultipleResources from the timer awaited at `at`; at x9 the finally
\* block runs with an error of the try block pending
MultipleTurn(at, objs, stack) ==
  CASE at = "m1" -> Acquire("Database", "m2", objs, stack)
    [] at = "m2" -> Acquire("Cache (depends on DB)", "m3", objs, stack)
    [] at = "m3" -> Acquire("Session (depends on Cache)", "m4", objs, stack)
    [] at = "m4" -> UseOrFinally(1, "m5", objs, stack)
    [] at = "m5" -> UseOrFinally(2, "m6", objs, stack)
    [] at = "m6" -> UseOrFinally(3, "m7", objs, stack)
    [] at = "m7" ->
         Turn("m8", <<Entry("All resources in use...", "info")>>, objs, stack, TRUE)
    [] at = "m8" ->
         Turn("m9", <<Entry("Disposing in REVERSE order...", "warning")>>,
              objs, stack, TRUE)
    [] at = "m9" ->
         IF Len(stack) > 0
         THEN DisposeTop("m9", objs, stack)
         ELSE Turn("idle", <<Entry("Demo complete!", "success")>>, objs, stack,
                   FALSE)
    [] at = "x9" ->
         IF Len(stack) > 0
         THEN DisposeTop("x9", objs, stack)
         ELSE Turn("crashed", <<>>, objs, stack, TRUE)

\* A click on a start button of UsingDeclarationsDemo: setIsRunning(true),
\* setLogs([]), the first addLog, and the first await
ClickUsing(demo, at, message) ==
  /\ ~Disabled(udRunning)
  /\ udRuns < MaxRuns
  /\ udRuns' = udRuns + 1
  /\ udRunning' = TRUE
  /\ udDemo' = demo
  /\ udPc' = at
  /\ udLogs' = Tag(<<Entry(message, "info")>>, udRuns + 1)
  /\ udObjects' = <<>>
  /\ udStack' = <<>>
  /\ UNCHANGED <<coreVars, imageVars, parseVars, resourceVars, fromAsyncVars>>

ClickBasicUsage == ClickUsing("basic", "b1", "Starting basic demo...")

ClickWithError == ClickUsing("error", "e1", "Starting error handling demo...")

ClickMultipleResources ==
  ClickUsing("multiple", "m1", "Starting multiple resources demo...")

\* The run resumes from its await and takes the turn t
UsingResume(t) ==
  /\ udPc' = t.pc
  /\ udLogs' = udLogs \o Tag(t.add, udRuns)
  /\ udObjects' = t.objs
  /\ udStack' = t.stack
  /\ udRunning' = t.running
  /\ UNCHANGED <<udDemo, udRuns>>
  /\ UNCHANGED <<coreVars, imageVars, parseVars, resourceVars, fromAsyncVars>>

\* A timer of demoBasicUsage fires
BasicStep ==
  /\ udDemo = "basic"
  /\ udPc \in {"b1", "b2", "b3", "b4", "b5"}
  /\ UsingResume(BasicTurn(udPc, udObjects))

\* A timer of demoWithError fires
ErrorStep ==
  /\ udDemo = "error"
  /\ udPc \in {"e1", "e2", "e3", "e4", "e5", "e6"}
  /\ UsingResume(ErrorTurn(udPc, udObjects))

\* A timer of demoMultipleResources fires
MultipleStep ==
  /\ udDemo = "multiple"
  /\ udPc \in {"m1", "m2", "m3", "m4", "m5", "m6", "m7", "m8", "m9", "x9"}
  /\ UsingResume(MultipleTurn(udPc, udObjects, udStack))

(***************************************************************************)
(* ArrayFromAsyncDemo.  The click handler runs to the first timer of       *)
(* countdown; each turn runs from a timer that fired to the next timer or  *)
(* to the end of the run.  An entry of logs also records its run.          *)
(***************************************************************************)
CountdownFrom == 5

AfTag(messages, run) ==
  [k \in 1..Len(messages) |-> [message |-> messages[k], run |-> run]]

\* numbers.join(', ')
RECURSIVE Join(_)
Join(numbers) ==
  IF Len(numbers) = 0 THEN ""
  ELSE IF Len(numbers) = 1 THEN ToString(numbers[1])
  ELSE ToString(numbers[1]) \o ", " \o Join(Tail(numbers))

\* mapFn ? await mapFn.call(thisArg, value, index) : value
Mapped(mode, value) == IF mode = "mapping" THEN value * 2 ELSE value

\* A click on a start button of ArrayFromAsyncDemo: setIsRunning(true),
\* setLogs([]), setResult(null), addLog, and Array.fromAsync(countdown(5)) up
\* to the first timer
ClickFromAsync(mode, message) ==
  /\ ~Disabled(afRunning)
  /\ afRuns < MaxRuns
  /\ afRuns' = afRuns + 1
  /\ afRunning' = TRUE
  /\ afMode' = mode
  /\ afLogs' = AfTag(<<message>>, afRuns + 1)
  /\ afResult' = <<>>
  /\ afI' = CountdownFrom
  /\ afNumbers' = <<>>
  /\ afPc' = "waiting"
  /\ UNCHANGED <<coreVars, imageVars, parseVars, resourceVars, usingVars>>

ClickRunBasic == ClickFromAsync("basic", "Starting countdown...")

ClickRunWithMapping ==
  ClickFromAsync("mapping", "Starting countdown with mapping (x2)...")

\* A timer of countdown fires: the value is logged, yielded and stored, and
\* the next timer is awaited or, after the last value, the run completes
CountdownStep ==
  /\ afPc = "waiting"
  /\ LET numbers == Append(afNumbers, Mapped(afMode, afI))
         yielding == "Yielding: " \o ToString(afI)
     IN /\ afNumbers' = numbers
        /\ afI' = afI - 1
        /\ IF afI - 1 > 0
           THEN /\ afLogs' = afLogs \o AfTag(<<yielding>>, afRuns)
                /\ UNCHANGED <<afPc, afResult, afRunning>>
           ELSE /\ afLogs' = afLogs \o AfTag(
                     <<yielding,
                       "Completed! Result: [" \o Join(numbers) \o "]">>, afRuns)
                /\ afResult' = <<numbers>>
                /\ afRunning' = FALSE
                /\ afPc' = "idle"
  /\ UNCHANGED <<afMode, afRuns>>
  /\ UNCHANGED <<coreVars, imageVars, parseVars, resourceVars, usingVars>>

(***************************************************************************)
(* The page with both demo components.  The event loop runs every timer    *)
(* that is due; nobody has to click.                                       *)
(***************************************************************************)
InitDemo == NoContent /\ siteMeta = metadata /\ Start /\ PageStart

NextDemo ==
  \/ ClickBasicUsage
  \/ ClickWithError
  \/ ClickMultipleResources
  \/ BasicStep
  \/ ErrorStep
  \/ MultipleStep
  \/ ClickRunBasic
  \/ ClickRunWithMapping
  \/ CountdownStep

SpecDemo ==
  /\ InitDemo
  /\ [][NextDemo]_vars
  /\ WF_vars(BasicStep)
  /\ WF_vars(ErrorStep)
  /\ WF_vars(MultipleStep)
  /\ WF_vars(CountdownStep)

(***************************************************************************)
(* Properties.                                                             *)
(***************************************************************************)
\* getPosts has returned its list
Resolved == pc \in {"resolved", "feeding", "done"}

DateOf(post) == DateParse(Get(post, "date"))
AllParseable(ps) == \A k \in 1..Len(ps) : ~IsNaN(DateOf(ps[k]))

\* The front matter of ./public/<nm>/index.md
DataOf(nm) == Matter(files[nm].lines).data
Required == {"title", "date", "spoiler"}
ValidDir(nm) ==
  /\ files[nm].exists
  /\ ~Matter(files[nm].lines).threw
  /\ Required \subseteq DOMAIN DataOf(nm)

Items == feed[1].items

\* C1: a returned list whose posts all have parseable dates is non-increasing
\* by date: whenever A precedes B, Date.parse(A.date) >= Date.parse(B.date).
C1_SortedByDate ==
  (Resolved /\ AllParseable(posts)) =>
    \A i, j \in 1..Len(posts) : i < j => DateOf(posts[i])[1] >= DateOf(posts[j])[1]

\* Three posts enumerated January, June, March have been returned
C1_Witness ==
  /\ pc = "resolved"
  /\ Len(posts) = 3
  /\ Get(DataOf(dirs[1]), "date") = "2024-01-01"
  /\ Get(DataOf(dirs[2]), "date") = "2024-06-01"
  /\ Get(DataOf(dirs[3]), "date") = "2024-03-01"
  /\ posts[1].title = "June" /\ posts[2].title = "March" /\ posts[3].title = "January"

\* C2: from a root of N valid post directories getPosts returns exactly N
\* records, one per directory, each holding the slug and the front matter of
\* one directory, ties in date included.
C2_OneRecordPerDirectory ==
  (Resolved /\ \A i \in 1..Len(dirs) : ValidDir(dirs[i])) =>
    /\ Len(posts) = Len(dirs)
    /\ \E p \in Permutations(1..Len(dirs)) :
         \A k \in 1..Len(posts) :
           /\ posts[k].slug = dirs[p[k]]
           /\ DOMAIN posts[k] = DOMAIN DataOf(dirs[p[k]]) \cup {"slug"}
           /\ \A key \in DOMAIN DataOf(dirs[p[k]]) \ {"slug"} :
                posts[k][key] = DataOf(dirs[p[k]])[key]

\* C3: when a directory of the root has no index.md, getPosts never returns a
\* list, and no feed is built, whatever the other directories hold and in
\* whatever order the reads settle.
C3_MissingIndexFails ==
  (\E i \in 1..Len(entries) :
      entries[i].isDirectory /\ ~files[entries[i].name].exists) =>
    (~Resolved /\ posts = <<>> /\ feed = <<>>)

\* getPosts has thrown on a failed read after another read succeeded and
\* while a third is still pending
C3_Witness ==
  /\ pc = "rejected"
  /\ \E i, j, k \in 1..Len(reads) :
       reads[i] = "rejected" /\ reads[j] = "fulfilled" /\ reads[k] = "pending"

\* C4: getPosts never returns a record that lacks title, date or spoiler.
C4_RequiredFieldsPresent ==
  Resolved => \A k \in 1..Len(posts) : Required \subseteq DOMAIN posts[k]

\* C5: in a returned list the posts with parseable dates are in non-increasing
\* date order relative to each other, also when other posts have an
\* unparseable or missing date.
C5_ParseableDatesStayOrdered ==
  Resolved =>
    \A i, j \in 1..Len(posts) :
      (i < j /\ ~IsNaN(DateOf(posts[i])) /\ ~IsNaN(DateOf(posts[j])))
        => DateOf(posts[i])[1] >= DateOf(posts[j])[1]

\* C6: in a returned list the slugs are pairwise distinct and are the names of
\* the directories, whatever the front matter holds.
C6_SlugsAreDirectoryNames ==
  Resolved =>
    /\ \A i, j \in 1..Len(posts) : posts[i].slug = posts[j].slug => i = j
    /\ {posts[k].slug : k \in 1..Len(posts)} = {dirs[k] : k \in 1..Len(dirs)}

\* C7: the feed holds the entries of the posts in the order of the list
\* getPosts returned, one per post turned so far, and one per post when
\* generateFeed returns.
C7_FeedFollowsPosts ==
  feed # <<>> =>
    /\ Len(Items) = it - 1
    /\ Len(Items) <= Len(posts)
    /\ pc = "done" => Len(Items) = Len(posts)
    /\ [k \in 1..Len(Items) |-> Items[k].link]
         = [k \in 1..Len(Items) |-> site_url \o posts[k].slug \o "/"]

\* A feed of three entries has been returned whose first entry is not the
\* directory enumerated first
C7_Witness ==
  /\ pc = "done"
  /\ feed # <<>>
  /\ Len(Items) = 3
  /\ Items[1].link # site_url \o dirs[1] \o "/"
  /\ Items[1].link # Items[2].link /\ Items[2].link # Items[3].link

\* C8: id and link of every entry are the site URL, the slug of its post and
\* "/", so entries with equal ids come from posts with equal slugs.
C8_EntryIdAndLink ==
  feed # <<>> =>
    /\ \A k \in 1..Len(Items) :
         /\ Items[k].id = "https://sulhadin.com/" \o posts[k].slug \o "/"
         /\ Items[k].link = Items[k].id
    /\ \A j, k \in 1..Len(Items) :
         Items[j].id = Items[k].id => posts[j].slug = posts[k].slug

\* A feed has been returned with two entries of different ids, the first for
\* directory b
C8_Witness ==
  /\ pc = "done"
  /\ feed # <<>>
  /\ Len(Items) >= 2
  /\ Items[1].id = "https://sulhadin.com/b/"
  /\ Items[2].id = "https://sulhadin.com/a/"

\* C9: every entry carries the title, the spoiler (as description) and the
\* date of its own post.
C9_EntryFieldsOfOwnPost ==
  feed # <<>> =>
    \A k \in 1..Len(Items) :
      /\ Items[k].title = Get(posts[k], "title")
      /\ Items[k].description = Get(posts[k], "spoiler")
      /\ Items[k].date = DateOf(posts[k])

\* A feed has been returned whose entries are June, then January, each with
\* its own spoiler and date (days since 1970-01-01)
C9_Witness ==
  /\ pc = "done"
  /\ feed # <<>>
  /\ Len(Items) = 2
  /\ Items[1].title = "June" /\ Items[1].description = "second"
  /\ Items[1].date = <<19875>>
  /\ Items[2].title = "January" /\ Items[2].description = "first"
  /\ Items[2].date = <<19723>>

\* C10: a second run of generateFeed over the same content gives the same
\* feed as the first, whatever the time of either run.
C10_FeedDeterministic ==
  (pc = "done" /\ caller = "feed" /\ prevFeed # <<>>) => feed = prevFeed

\* A second run has returned a feed of two entries, after the clock moved
C10_Witness ==
  /\ pc = "done"
  /\ caller = "feed"
  /\ calls = 2
  /\ prevFeed # <<>>
  /\ Len(Items) >= 2
  /\ clock >= 1

\* The record getPosts builds for directory nm
RecordOf(nm) == PostOf(nm, DataOf(nm))

\* index.md of nm cannot be read, or its front matter does not parse
BrokenDir(nm) == ~files[nm].exists \/ Matter(files[nm].lines).threw

DirNames == {entries[i].name : i \in {j \in 1..Len(entries) : entries[j].isDirectory}}

\* C12: a second call of getPosts over the unchanged content returns a list
\* with the same records in the same order, in an array and in record objects
\* that the first call's result does not hold.
C12_SecondCallEqualAndFresh ==
  (Resolved /\ prevPosts # <<>>) =>
    /\ posts = prevPosts[1].list
    /\ postsRef.list # prevPosts[1].ref.list
    /\ postsRef.records \cap prevPosts[1].ref.records = {}
    /\ postsRef.list \notin prevPosts[1].ref.records
    /\ prevPosts[1].ref.list \notin postsRef.records

\* A second call has returned three records, not all alike
C12_Witness ==
  /\ pc = "resolved"
  /\ calls = 2
  /\ prevPosts # <<>>
  /\ Len(posts) = 3
  /\ posts[1] # posts[3]
  /\ Cardinality(postsRef.records) = 3

\* C13: when getPosts has returned, and so whenever a feed or a listing
\* exists, every read has completed and the list holds one record per
\* directory.
C13_JoinBeforeResult ==
  (Resolved \/ feed # <<>> \/ listing # <<>>) =>
    /\ Len(reads) = Len(dirs)
    /\ \A i \in 1..Len(reads) : reads[i] = "fulfilled"
    /\ Len(posts) = Len(dirs)
    /\ Len(dirs) = Cardinality(DirNames)

\* Home has rendered a listing of three posts
C13_Witness ==
  /\ pc = "done"
  /\ caller = "home"
  /\ listing # <<>>
  /\ Len(listing[1]) = 3
  /\ Len(reads) = 3

\* C14: the returned list is fixed by the content tree alone, whatever the
\* order in which the reads completed: it is the sorted list of the records
\* that pair each directory with the front matter of its own index.md.
C14_CompletionOrderIrrelevant ==
  Resolved =>
    LET records == [i \in 1..Len(dirs) |-> RecordOf(dirs[i])]
    IN /\ \E p \in Permutations(1..Len(dirs)) :
            \A k \in 1..Len(posts) : posts[k] = records[p[k]]
       /\ posts = ArraySort(records)

\* Three directories with three different documents have been read
C14_Witness ==
  /\ pc = "resolved"
  /\ Len(posts) = 3
  /\ files[dirs[1]].lines = DocJan
  /\ files[dirs[2]].lines = DocSoon
  /\ files[dirs[3]].lines = DocJun

\* C15: when getPosts fails (a read failed or a front matter did not parse)
\* there is no feed, no feed entry and no listing; a returned feed or listing
\* holds an entry for every directory.
C15_FailsAtomically ==
  /\ (pc = "rejected" \/ error # <<>> \/ \E nm \in DirNames : BrokenDir(nm)) =>
       (feed = <<>> /\ listing = <<>> /\ ~Resolved)
  /\ (pc = "done" /\ feed # <<>>) => Len(Items) = Cardinality(DirNames)
  /\ listing # <<>> => Len(listing[1]) = Cardinality(DirNames)

\* A call of Home has failed on the second of three directories
C15_Witness ==
  /\ pc = "rejected"
  /\ caller = "home"
  /\ Len(dirs) = 3
  /\ ~BrokenDir(dirs[1]) /\ BrokenDir(dirs[2]) /\ ~BrokenDir(dirs[3])

\* C16: when a front matter fails to parse, the error getPosts rejects with
\* identifies the directory of the offending file.
C16_ParseErrorNamesSlug ==
  (pc = "rejected" /\ error # <<>> /\ error[1].name = "YAMLException") =>
    \E i \in 1..Len(dirs) :
      /\ Matter(files[dirs[i]].lines).threw
      /\ error[1].path = "./public/" \o dirs[i] \o "/index.md"

\* C17: when every index.md parses, getPosts succeeds, and every key of a
\* front matter, the additional ones included, is in the record of its
\* directory with its parsed value, next to slug and to nothing else.
C17_ExtraKeysPassThrough ==
  /\ (\A nm \in DirNames : ~BrokenDir(nm)) => pc # "rejected"
  /\ Resolved =>
       LET data == [i \in 1..Len(dirs) |-> DataOf(dirs[i])]
       IN \E p \in Permutations(1..Len(dirs)) :
            \A k \in 1..Len(posts) :
              /\ DOMAIN posts[k] = DOMAIN data[p[k]] \cup {"slug"}
              /\ \A key \in DOMAIN data[p[k]] :
                   posts[k][key] = data[p[k]][key]

\* Two posts have been returned, one with the additional key cta, the other
\* (of directory b) with the additional key slug
C17_Witness ==
  /\ pc = "resolved"
  /\ Len(posts) = 2
  /\ files[dirs[1]].lines = DocJan
  /\ files[dirs[2]].lines = DocSlug
  /\ posts[1].slug = "a" /\ posts[1].title = "March"
  /\ posts[2].cta = "react" /\ posts[2].title = "January"

C18_ImageArgIsTitle ==
  (imgKind = "post" /\ imgArg # <<>>) =>
    imgArg[1] = [title |-> Get(DataOf(imgSlug), "title")]

\* The image of directory b, titled June, has been rendered next to a
\* directory a with another document
C18_Witness ==
  /\ imgPc = "returned"
  /\ imgSlug = "b"
  /\ imgArg = <<[title |-> "June"]>>
  /\ "a" \in DOMAIN files /\ files["a"].lines = DocJan

\* C19 as stated: every error of an image handler comes from the rendering
\* collaborator.
C19_ErrorsOnlyFromCollaborator ==
  imgPc = "failed" => imgError.origin = "collaborator"

\* C19 amended: the home handler raises no error of its own; the per-post
\* handler raises one only when index.md of the slug cannot be read or its
\* front matter does not parse, and then the collaborator was not invoked;
\* every other error comes from the collaborator.
C19_HandlerErrorOnlyOnReadOrParse ==
  imgPc = "failed" =>
    \/ imgError.origin = "collaborator"
    \/ /\ imgError.origin = "handler"
       /\ imgKind = "post"
       /\ ~FileOf(imgSlug).exists \/ Matter(FileOf(imgSlug).lines).threw
       /\ imgArg = <<>>

\* The per-post handler has failed on a directory without index.md
C19_Witness ==
  /\ imgPc = "failed"
  /\ imgKind = "post"
  /\ imgSlug \in DOMAIN files
  /\ imgError = [origin |-> "handler", name |-> "ENOENT"]

PlainNames ==
  {entries[i].name : i \in {j \in 1..Len(entries) : ~entries[j].isDirectory}}

\* C22: getPosts reads <name>/index.md for every directory of the root and for
\* no other entry; an entry that is no directory gets no read, adds no record
\* and raises no error.
C22_NonDirectoriesIgnored ==
  /\ pc \notin {"idle", "readdir"} =>
       /\ {dirs[i] : i \in 1..Len(dirs)} = DirNames
       /\ Len(dirs) = Cardinality(DirNames)
       /\ Len(reads) = Len(dirs)
       /\ \A i \in 1..Len(dirs) : dirs[i] \notin PlainNames
  /\ Resolved => Len(posts) = Cardinality(DirNames)
  /\ error # <<>> =>
       \A nm \in PlainNames : error[1].path # "./public/" \o nm \o "/index.md"
  /\ (\A nm \in DirNames : ~BrokenDir(nm)) => pc # "rejected"

\* Two records have been returned from a root whose second entry, between two
\* directories, is a plain file
C22_Witness ==
  /\ pc = "resolved"
  /\ Len(entries) = 3
  /\ entries[1].isDirectory /\ ~entries[2].isDirectory /\ entries[3].isDirectory
  /\ dirs = <<"a", "c">>
  /\ Len(posts) = 2

\* The comparator reports a before b
Before(a, b) == Compare(a, b) < 0

\* C23: over the posts of a returned list the comparator is a consistent
\* ordering: for two different posts it never reports both orders, it reports
\* neither for two posts of equal date, and it is transitive.
C23_ComparatorConsistent ==
  Resolved =>
    \A i, j, k \in 1..Len(posts) :
      /\ i # j => ~(Before(posts[i], posts[j]) /\ Before(posts[j], posts[i]))
      /\ (i # j /\ DateOf(posts[i]) = DateOf(posts[j])) =>
           (~Before(posts[i], posts[j]) /\ ~Before(posts[j], posts[i]))
      /\ (Before(posts[i], posts[j]) /\ Before(posts[j], posts[k])) =>
           Before(posts[i], posts[k])

\* The dates of the directories all parse and are pairwise different
DistinctParseable ==
  /\ \A nm \in DirNames : ~IsNaN(DateOf(RecordOf(nm)))
  /\ \A nm, other \in DirNames :
       DateOf(RecordOf(nm)) = DateOf(RecordOf(other)) => nm = other

\* C24: over directories whose dates parse and are pairwise different, the
\* list a call returns is strictly newest first and is the list the call
\* before it returned, in whatever order readdir listed the directories for
\* either call.
C24_EnumerationOrderIrrelevant ==
  (Resolved /\ DistinctParseable) =>
    /\ \A i, j \in 1..Len(posts) :
         i < j => DateOf(posts[i])[1] > DateOf(posts[j])[1]
    /\ {posts[k] : k \in 1..Len(posts)} = {RecordOf(nm) : nm \in DirNames}
    /\ prevPosts # <<>> => posts = prevPosts[1].list

\* A second call has returned the three posts that the first call read in
\* the order a, b, c, having read them in the order c, a, b
C24_Witness ==
  /\ pc = "resolved"
  /\ DistinctParseable
  /\ prevPosts # <<>>
  /\ prevPosts[1].dirs = <<"a", "b", "c">>
  /\ dirs = <<"c", "a", "b">>
  /\ Len(posts) = 3

\* The dispose entries of a log
DisposeEntries(logs) == SelectSeq(logs, LAMBDA e : e.type = "dispose")

\* C27: a Resource starts not disposed; the first dispose marks it and logs
\* one dispose entry; once disposed it stays disposed and a later dispose
\* changes and logs nothing; use() throws exactly when the resource is
\* disposed, and logs exactly when it is not.
C27_ResourceOneWay ==
  [][(res # <<>> /\ res' # <<>>) =>
       /\ res[1].disposed => (res' = res /\ resLogs' = resLogs)
       /\ resLast'.op = "dispose" =>
            /\ res'[1].disposed
            /\ ~resLast'.threw
            /\ Len(DisposeEntries(resLogs')) = 1
            /\ ~res[1].disposed =>
                 resLogs' = Append(resLogs, Entry(res[1].name \o " disposed",
                                                  "dispose"))
       /\ resLast'.op = "use" =>
            /\ resLast'.threw = res[1].disposed
            /\ res' = res
            /\ ~res[1].disposed => Len(resLogs') = Len(resLogs) + 1]_vars
  /\ [](res # <<>> =>
         /\ resLast.op = "new" => ~res[1].disposed
         /\ res[1].disposed = (Len(DisposeEntries(resLogs)) = 1)
         /\ Len(DisposeEntries(resLogs)) <= 1)

\* A resource was used, disposed, disposed again, and then use() threw
C27_Witness ==
  /\ res # <<>>
  /\ res[1].disposed
  /\ resOps = 4
  /\ Len(resLogs) = 3
  /\ resLogs[2].type = "info" /\ resLogs[3].type = "dispose"
  /\ resLast = [op |-> "use", threw |-> TRUE]

\* The run of UsingDeclarationsDemo has ended
UsingEnded == udPc = "idle" /\ udDemo # "none"

AllDisposed == \A i \in 1..Len(udObjects) : udObjects[i].disposed

\* The messages of the dispose entries, in the order they were logged
DisposeMessages(logs) ==
  [k \in 1..Len(DisposeEntries(logs)) |-> DisposeEntries(logs)[k].message]

\* C25: in demoMultipleResources a resource is disposed only after every
\* resource acquired after it, the dispose entries are logged in the reverse
\* of the acquisition order, and at the end of the run all three resources
\* (Session, then Cache, then Database) have been disposed.
C25_ReverseDisposal ==
  udDemo = "multiple" =>
    /\ \A i, j \in 1..Len(udObjects) :
         (i < j /\ udObjects[i].disposed) => udObjects[j].disposed
    /\ LET n == Len(udObjects)
           d == Cardinality({i \in 1..n : udObjects[i].disposed})
       IN DisposeMessages(udLogs) =
            [k \in 1..d |-> udObjects[n + 1 - k].name \o " disposed"]
    /\ UsingEnded =>
         /\ Len(udObjects) = 3
         /\ AllDisposed
         /\ DisposeMessages(udLogs) =
              <<"Session (depends on Cache) disposed",
                "Cache (depends on DB) disposed", "Database disposed">>

\* Session and Cache have been disposed, Database not yet
C25_Witness ==
  /\ udDemo = "multiple"
  /\ udPc = "m9"
  /\ Len(udObjects) = 3
  /\ ~udObjects[1].disposed /\ udObjects[2].disposed /\ udObjects[3].disposed
  /\ udStack = <<1>>

\* How many dispose entries of the log are about the resource r
DisposalsOf(r, logs) ==
  Len(SelectSeq(DisposeEntries(logs),
                LAMBDA e : e.message = r.name \o " disposed"))

\* C26: in a run of demoBasicUsage, demoWithError or demoMultipleResources
\* every resource acquired is disposed at most once, the run goes on to its
\* end, and at the end every resource has been disposed exactly once, also
\* when the error was thrown inside the try block.
C26_AcquiredThenDisposedOnce ==
  /\ [](\A i \in 1..Len(udObjects) :
          DisposalsOf(udObjects[i], udLogs)
            = (IF udObjects[i].disposed THEN 1 ELSE 0))
  /\ [](UsingEnded =>
          /\ Len(udObjects) >= 1
          /\ AllDisposed
          /\ Len(DisposeEntries(udLogs)) = Len(udObjects))
  /\ (udRunning /\ udDemo = "basic") ~> (UsingEnded /\ udDemo = "basic")
  /\ (udRunning /\ udDemo = "error") ~> (UsingEnded /\ udDemo = "error")
  /\ (udRunning /\ udDemo = "multiple") ~> (UsingEnded /\ udDemo = "multiple")

\* A run of demoWithError has ended: the error was caught and the resource
\* is disposed
C26_Witness ==
  /\ UsingEnded
  /\ udDemo = "error"
  /\ Len(udObjects) = 1
  /\ udObjects[1].disposed
  /\ \E k \in 1..Len(udLogs) :
       udLogs[k].message = "Caught error: Something went wrong!"
  /\ DisposalsOf(udObjects[1], udLogs) = 1

\* C28 as stated: over the five demo runs of the page, no second run starts
\* while one is active.
C28_AtMostOneRunActive == ~(udRunning /\ afRunning)

\* C28 amended: in each component isRunning is true exactly while a run of
\* that component is active, so it is set when the run starts and reset at
\* its end, which every run reaches; while it is true no run of that
\* component starts, and the log of the component holds entries of its
\* latest run only.  Runs of the two components may be active together.
C28_OneRunPerComponent ==
  /\ [](udRunning = (udPc # "idle"))
  /\ [](afRunning = (afPc # "idle"))
  /\ [][(udRuns' # udRuns => (~udRunning /\ udRunning'))
         /\ (afRuns' # afRuns => (~afRunning /\ afRunning'))]_vars
  /\ [](\A k \in 1..Len(udLogs) : udLogs[k].run = udRuns)
  /\ [](\A k \in 1..Len(afLogs) : afLogs[k].run = afRuns)
  /\ udRunning ~> ~udRunning
  /\ afRunning ~> ~afRunning

\* The second run of demoWithError is past its error while a run of
\* runWithMapping is under way
C28_Witness ==
  /\ udRunning /\ afRunning
  /\ udRuns = 2 /\ udDemo = "error" /\ udPc = "e5"
  /\ afMode = "mapping" /\ afNumbers = <<10, 8>>
  /\ Len(afLogs) = 3

\* A staleness between 0 and 1, both included
InRange(staleness) ==
  /\ ~IsNaN(staleness)
  /\ staleness[2] > 0
  /\ 0 <= staleness[1] /\ staleness[1] <= staleness[2]

\* C29: the staleness PostTitle computes for a post of the listing lies
\* between 0 and 1, whatever date the post has and at whatever time after
\* 30 November 2018 the page is rendered.
C29_StalenessInRange ==
  listing # <<>> =>
    (Today(clock) > FirstPostDay
       /\ \A k \in 1..Len(listing[1]) : InRange(listing[1][k].staleness))

====
